---- MODULE Spec2Model ----
(***************************************************************************)
(* A model of pigfox/gas-optimizer: the tokenizer and the fallback         *)
(* recursive-descent parser (tokenize, Parser), the construction of the    *)
(* optimizer with its fallback on a failing solc (NewGasOptimizer) and the *)
(* analysis passes over both tree shapes (Analyze and what it calls).      *)
(*                                                                         *)
(* Go strings are modelled as sequences of one-character strings, so that  *)
(* concatenation, trimming, splitting and formatting are computed and not  *)
(* assumed.  A nil pointer to a node is the empty sequence, a non-nil one  *)
(* a one-element sequence.  A Go map is a function from its keys; ranging  *)
(* over it visits the keys in an order Go leaves unspecified, which is     *)
(* every permutation here.                                                 *)
(***************************************************************************)
EXTENDS Integers, Sequences, FiniteSets, TLC

VARIABLES
    Source,        \* GasOptimizer.Source / Parser.Source
    solcOutcome,   \* what running solc and reading its output gives
    solcDoc,       \* the tree document solc printed (decoded, typed)
    phase,         \* where main / NewGasOptimizer / Analyze stands
    Tokens,        \* Parser.Tokens
    Pos,           \* Parser.Pos
    Current,       \* Parser.Current
    stack,         \* the parser's call stack (Parse, parseFunction, parseLoop, ...)
    AST,           \* GasOptimizer.AST
    Reports,       \* GasOptimizer.Reports
    err,           \* the error NewGasOptimizer returns
    lastIter,      \* history: the loop iteration completed last, with Pos before and after
    built,         \* history: the statements the parser has returned, with token indices
    parses,        \* history: number of fallback parses started
    steps,         \* history: number of steps the parser has taken
    runs,          \* history: number of runs of main on the same input
    prevReports    \* history: the report list of the previous run

vars == <<Source, solcOutcome, solcDoc, phase, Tokens, Pos, Current, stack, AST,
          Reports, err, lastIter, built, parses, steps, runs, prevReports>>

(***************************************************************************)
(* Strings                                                                 *)
(***************************************************************************)
RECURSIVE Flatten(_)
Flatten(ss) == IF ss = <<>> THEN <<>> ELSE Head(ss) \o Flatten(Tail(ss))

RECURSIVE Join(_, _)
Join(ss, sep) ==
    IF ss = <<>> THEN <<>>
    ELSE IF Len(ss) = 1 THEN Head(ss)
    ELSE Head(ss) \o sep \o Join(Tail(ss), sep)

Digits == {"0", "1", "2", "3", "4", "5", "6", "7", "8", "9"}

DigitChar(d) == <<"0", "1", "2", "3", "4", "5", "6", "7", "8", "9">>[d + 1]

\* fmt's %d of a non-negative integer
RECURSIVE Itoa(_)
Itoa(n) == IF n < 10 THEN <<DigitChar(n)>> ELSE Itoa(n \div 10) \o <<DigitChar(n % 10)>>

\* unicode.IsSpace over the characters the model's texts use
IsSpace(c) == c \in {" ", "\t", "\n", "\r"}

RECURSIVE TrimLeft(_)
TrimLeft(s) == IF s # <<>> /\ IsSpace(Head(s)) THEN TrimLeft(Tail(s)) ELSE s

RECURSIVE TrimRight(_)
TrimRight(s) ==
    IF s # <<>> /\ IsSpace(s[Len(s)]) THEN TrimRight(SubSeq(s, 1, Len(s) - 1)) ELSE s

\* strings.TrimSpace
TrimSpace(s) == TrimRight(TrimLeft(s))

\* strings.Split(s, "\n"): always at least one line
RECURSIVE SplitLines(_, _)
SplitLines(s, cur) ==
    IF s = <<>> THEN <<cur>>
    ELSE IF Head(s) = "\n" THEN <<cur>> \o SplitLines(Tail(s), <<>>)
    ELSE SplitLines(Tail(s), Append(cur, Head(s)))

(***************************************************************************)
(* Lexer (tokenize, classifyToken)                                         *)
(***************************************************************************)
TokenIdentifier == "TokenIdentifier"
TokenKeyword == "TokenKeyword"
TokenOperator == "TokenOperator"
TokenPunctuation == "TokenPunctuation"
TokenNumber == "TokenNumber"

Token(t, v, l) == [Type |-> t, Value |-> v, Line |-> l]

\* the zero value of Token: TokenIdentifier is iota 0
ZeroToken == Token(TokenIdentifier, <<>>, 0)

kw_for == <<"f", "o", "r">>
kw_while == <<"w", "h", "i", "l", "e">>
kw_if == <<"i", "f">>
kw_function == <<"f", "u", "n", "c", "t", "i", "o", "n">>
kw_uint == <<"u", "i", "n", "t">>
kw_public == <<"p", "u", "b", "l", "i", "c">>
kw_mapping == <<"m", "a", "p", "p", "i", "n", "g">>
kw_returns == <<"r", "e", "t", "u", "r", "n", "s">>

keywords == {kw_for, kw_while, kw_if, kw_function, kw_uint, kw_public, kw_mapping, kw_returns}

operators == {<<"=">>, <<".">>, <<";">>, <<"<">>, <<"+", "+">>}

punctuation == {<<"(">>, <<")">>, <<"{">>, <<"}">>}

\* fmt.Sscanf(value, "%d", new(int)) returns no error: an optional sign, then
\* at least one digit; what follows the digits is left unread
SscanfInt(value) ==
    LET v == IF value # <<>> /\ Head(value) \in {"+", "-"} THEN Tail(value) ELSE value
    IN  v # <<>> /\ Head(v) \in Digits

classifyToken(value, line) ==
    IF value \in keywords THEN Token(TokenKeyword, value, line)
    ELSE IF SscanfInt(value) THEN Token(TokenNumber, value, line)
    ELSE Token(TokenIdentifier, value, line)

\* the lookup the scanning loop makes for the character at hand
IsSymbol(char) == <<char>> \in operators \/ <<char>> \in punctuation

\* the loop over the characters of one trimmed line, from index i, with the
\* pending buffer current
RECURSIVE ScanLine(_, _, _, _)
ScanLine(line, i, current, lineNo) ==
    IF i > Len(line)
    THEN IF current # <<>> THEN <<classifyToken(current, lineNo)>> ELSE <<>>
    ELSE LET char == line[i]
             flushed == IF current # <<>> THEN <<classifyToken(current, lineNo)>> ELSE <<>>
         IN  IF char = " " \/ char = "\t"
             THEN flushed \o ScanLine(line, i + 1, <<>>, lineNo)
             ELSE IF IsSymbol(char)
             THEN flushed
                  \o <<Token(IF <<char>> \in punctuation THEN TokenPunctuation
                             ELSE TokenOperator, <<char>>, lineNo)>>
                  \o ScanLine(line, i + 1, <<>>, lineNo)
             ELSE ScanLine(line, i + 1, Append(current, char), lineNo)

RECURSIVE ScanLines(_, _)
ScanLines(lines, lineNum) ==
    IF lines = <<>> THEN <<>>
    ELSE LET line == TrimSpace(Head(lines))
         IN  (IF line = <<>> THEN <<>> ELSE ScanLine(line, 1, <<>>, lineNum + 1))
             \o ScanLines(Tail(lines), lineNum + 1)

tokenize(source) == ScanLines(SplitLines(source, <<>>), 0)

(***************************************************************************)
(* Fallback parser (Parser)                                                *)
(*                                                                         *)
(* A cursor is Parser.Pos with Parser.Current.  Go's Tokens[Pos] (from 0)  *)
(* is Tokens[Pos + 1] here, so after an advance Current = Tokens[Pos].     *)
(* The recursion Parse -> parseFunction -> parseLoop / parseIfStatement is *)
(* the variable stack; a frame holds the node under construction and the   *)
(* loop of the function it stands in.  One step is one iteration of a loop *)
(* of the code, or the straight-line code from a loop's exit to the next   *)
(* loop or to the return.                                                  *)
(***************************************************************************)
Node(type, value, children, line) ==
    [Type |-> type, Value |-> value, Children |-> children, Line |-> line]

Cursor(pos, cur) == [Pos |-> pos, Current |-> cur]

advance(c) ==
    IF c.Pos < Len(Tokens) THEN Cursor(c.Pos + 1, Tokens[c.Pos + 1]) ELSE c

IsPunct(c, v) == c.Current.Type = TokenPunctuation /\ c.Current.Value = v

\* parseVariableAccess: the access node and the cursor it leaves
parseVariableAccess(c) ==
    LET node == Node("MemberAccess", c.Current.Value, <<>>, c.Current.Line)
        c1 == advance(c)
    IN  IF c1.Current.Type = TokenOperator /\ c1.Current.Value = <<".">>
        THEN LET c2 == advance(c1)
             IN  IF c2.Current.Type = TokenIdentifier
                 THEN [node |-> [node EXCEPT !.Children =
                                    <<Node("Identifier", c2.Current.Value, <<>>, c2.Current.Line)>>],
                       cur |-> advance(c2)]
                 ELSE [node |-> node, cur |-> c2]
        ELSE [node |-> node, cur |-> c1]

\* the condition of the loops that skip a header or a parameter list
HeaderCond_NoEnd(c) == c.Current.Value # <<")">>

HeaderCond(c) == c.Current.Value # <<")">> /\ c.Pos < Len(Tokens)

\* the condition of the loops that build a block
BlockCond(c) == c.Current.Value # <<"}">> /\ c.Pos < Len(Tokens)

Frame(fn, pc, node, paren) ==
    [fn |-> fn, pc |-> pc, node |-> node, body |-> Node("Block", <<>>, <<>>, 0),
     iterStart |-> 0, paren |-> paren, open |-> 0]

Iter(loop, from, to) == <<[loop |-> loop, from |-> from, to |-> to]>>

Built(f, node, c) ==
    <<[kind |-> f.fn, paren |-> f.paren, open |-> f.open, end |-> c.Pos, node |-> node]>>

\* A called statement builder returns result (<<>> is nil) to its caller, the
\* top frame of stk, which appends it and ends the iteration it is in: Parse
\* goes back to its loop's head, parseFunction advances first.
Finish(stk, c, result, log) ==
    LET caller == stk[Len(stk)]
        c1 == IF caller.fn = "parseFunction" THEN advance(c) ELSE c
        grown == IF caller.fn = "parseFunction"
                 THEN [caller EXCEPT !.body.Children = @ \o result]
                 ELSE [caller EXCEPT !.node.Children = @ \o result]
    IN  [stack |-> [stk EXCEPT ![Len(stk)] = grown],
         cur |-> c1,
         iter |-> Iter(caller.fn, caller.iterStart, c1.Pos),
         built |-> log]

\* After the header: a `{` opens the block, anything else returns the node.
\* stk is the stack below frame f.
OpenBlock(stk, f, c) ==
    IF IsPunct(c, <<"{">>)
    THEN LET c1 == advance(c)
         IN  [stack |-> Append(stk, [f EXCEPT !.pc = "block", !.open = c.Pos,
                                        !.body = Node("Block", <<>>, <<>>, c1.Current.Line)]),
              cur |-> c1, iter |-> lastIter, built |-> <<>>]
    ELSE Finish(stk, c, <<f.node>>, Built(f, f.node, c))

\* parseForLoop / parseWhileLoop / parseIfStatement up to the header loop
StartLoop(stk, c, fn, type) ==
    LET node == Node(type, <<>>, <<>>, c.Current.Line)
        c1 == advance(c)
    IN  IF ~IsPunct(c1, <<"(">>)
        THEN Finish(stk, c1, <<>>, <<>>)
        ELSE [stack |-> Append(stk, Frame(fn, "header", node, c1.Pos)),
              cur |-> advance(c1), iter |-> lastIter, built |-> <<>>]

\* parseFunction up to the parameter loop, or to the block when no `(` follows
StartFunction(stk, c) ==
    LET c1 == advance(c)
        named == c1.Current.Type = TokenIdentifier
        node == Node("FunctionDeclaration",
                     IF named THEN c1.Current.Value ELSE <<>>, <<>>, c.Current.Line)
        c2 == IF named THEN advance(c1) ELSE c1
    IN  IF IsPunct(c2, <<"(">>)
        THEN [stack |-> Append(stk, Frame("parseFunction", "header", node, c2.Pos)),
              cur |-> advance(c2), iter |-> lastIter, built |-> <<>>]
        ELSE OpenBlock(stk, Frame("parseFunction", "header", node, 0), c2)

\* the dispatch on a keyword that starts a statement
Dispatch(stk, c) ==
    CASE c.Current.Value = kw_for -> StartLoop(stk, c, "parseLoop", "ForStatement")
      [] c.Current.Value = kw_while -> StartLoop(stk, c, "parseLoop", "WhileStatement")
      [] c.Current.Value = kw_if -> StartLoop(stk, c, "parseIfStatement", "IfStatement")
      [] OTHER -> StartFunction(stk, c)

Top == stack[Len(stack)]

Below == SubSeq(stack, 1, Len(stack) - 1)

Here == Cursor(Pos, Current)

At(fn, pc) == phase = "parsing" /\ stack # <<>> /\ Top.fn = fn /\ Top.pc = pc

Step(R) ==
    /\ stack' = R.stack
    /\ Pos' = R.cur.Pos
    /\ Current' = R.cur.Current
    /\ lastIter' = R.iter
    /\ built' = built \o R.built
    /\ steps' = steps + 1
    /\ UNCHANGED <<Source, solcOutcome, solcDoc, phase, Tokens, AST, Reports, err,
                   parses, runs, prevReports>>

\* one iteration of a header-skipping loop, or its exit and what follows
HeaderStep ==
    IF HeaderCond(Here)
    THEN LET c1 == advance(Here)
         IN  [stack |-> stack, cur |-> c1,
              iter |-> Iter(Top.fn \o ".header", Pos, c1.Pos), built |-> <<>>]
    ELSE OpenBlock(Below, Top, advance(Here))

\* the exit of a block-building loop: the block is attached, `}` skipped
CloseBlock ==
    LET node == [Top.node EXCEPT !.Children = Append(@, Top.body)]
        c1 == advance(Here)
    IN  Finish(Below, c1, <<node>>, Built(Top, node, c1))

\* one iteration of the block loop of parseLoop and parseIfStatement
AccessStep ==
    LET acc == parseVariableAccess(Here)
        c1 == IF Current.Type = TokenIdentifier THEN advance(acc.cur) ELSE advance(Here)
        f == IF Current.Type = TokenIdentifier
             THEN [Top EXCEPT !.body.Children = Append(@, acc.node)] ELSE Top
    IN  [stack |-> Append(Below, f), cur |-> c1,
         iter |-> Iter(Top.fn \o ".block", Pos, c1.Pos), built |-> <<>>]

Parse_entry ==
    /\ phase = "parsing" /\ stack = <<>>
    /\ Step([stack |-> <<Frame("Parse", "loop", Node("Root", <<>>, <<>>, 0), 0)>>,
             cur |-> advance(Here), iter |-> lastIter, built |-> <<>>])

Parse_loop ==
    /\ At("Parse", "loop") /\ Pos < Len(Tokens)
    /\ Step(IF Current.Type = TokenKeyword
               /\ Current.Value \in {kw_for, kw_while, kw_if, kw_function}
            THEN Dispatch(<<[Top EXCEPT !.iterStart = Pos]>>, Here)
            ELSE LET c1 == advance(Here)
                 IN  [stack |-> stack, cur |-> c1, iter |-> Iter("Parse", Pos, c1.Pos),
                      built |-> <<>>])

Parse_return ==
    /\ At("Parse", "loop") /\ ~(Pos < Len(Tokens))
    /\ phase' = "constructed"
    /\ AST' = [type |-> "*Node", val |-> <<Top.node>>]
    /\ stack' = <<>>
    /\ Reports' = <<>>
    /\ UNCHANGED <<Source, solcOutcome, solcDoc, Tokens, Pos, Current, err, lastIter,
                   built, parses, steps, runs, prevReports>>

parseLoop_header == At("parseLoop", "header") /\ Step(HeaderStep)

parseLoop_block ==
    /\ At("parseLoop", "block")
    /\ Step(IF BlockCond(Here) THEN AccessStep ELSE CloseBlock)

parseIfStatement_header == At("parseIfStatement", "header") /\ Step(HeaderStep)

parseIfStatement_block ==
    /\ At("parseIfStatement", "block")
    /\ Step(IF BlockCond(Here) THEN AccessStep ELSE CloseBlock)

parseFunction_params == At("parseFunction", "header") /\ Step(HeaderStep)

parseFunction_block ==
    /\ At("parseFunction", "block")
    /\ Step(IF ~BlockCond(Here) THEN CloseBlock
            ELSE IF Current.Type = TokenKeyword
            THEN IF Current.Value \in {kw_for, kw_while, kw_if}
                 THEN Dispatch(Append(Below, [Top EXCEPT !.iterStart = Pos]), Here)
                 ELSE LET c1 == advance(Here)
                      IN  [stack |-> stack, cur |-> c1,
                           iter |-> Iter("parseFunction.block", Pos, c1.Pos), built |-> <<>>]
            ELSE AccessStep)

(***************************************************************************)
(* Reports and the loop pass (generateLoopReport, analyzeCustomAST)        *)
(***************************************************************************)
GasSload == 800

GasMload == 3

Range(f) == {f[i] : i \in DOMAIN f}

\* every order in which a range over a map with the keys S can visit them
RECURSIVE Orders(_)
Orders(S) ==
    IF S = {} THEN {<<>>}
    ELSE UNION {{<<k>> \o rest : rest \in Orders(S \ {k})} : k \in S}

\* the map a sequence of storageVars[key]++ leaves
CountMap(keys) ==
    [k \in Range(keys) |-> Cardinality({i \in DOMAIN keys : keys[i] = k})]

\* every sequence made of one element of each set of sets, in order
RECURSIVE Concats(_)
Concats(sets) ==
    IF sets = <<>> THEN {<<>>}
    ELSE {a \o b : a \in Head(sets), b \in Concats(Tail(sets))}

LoopSavings(count) == (count - 1) * (GasSload - GasMload)

LoopReport(varName, count, location) ==
    [Issue |-> [fmt |-> "Variable '%s' read %d times in loop", s |-> varName, d |-> count],
     Suggestion |-> [fmt |-> "Cache '%s' in memory before loop", s |-> varName],
     GasSavings |-> LoopSavings(count),
     Location |-> location]

\* generateLoopReport: the report lists it can append, one per order of the range
generateLoopReport(storageVars, location) ==
    {[i \in DOMAIN order |-> LoopReport(order[i], storageVars[order[i]], location)] :
        order \in Orders({k \in DOMAIN storageVars : storageVars[k] > 1})}

\* collectStorageReadsCustom: the keys counted, in the order they are met
RECURSIVE collectStorageReadsCustom(_)
collectStorageReadsCustom(node) ==
    Flatten([i \in DOMAIN node.Children |->
        LET child == node.Children[i]
        IN  (IF child.Type = "MemberAccess" /\ Len(child.Children) > 0
             THEN <<child.Value \o <<".">> \o child.Children[1].Value>> ELSE <<>>)
            \o collectStorageReadsCustom(child)])

LineLocation(line) == <<"l", "i", "n", "e", " ">> \o Itoa(line)

IsLoopType(t) == t = "ForStatement" \/ t = "WhileStatement"

\* analyzeCustomAST: the report lists it can append
analyzeCustomAST(ast) ==
    Concats([i \in DOMAIN ast.Children |->
        LET node == ast.Children[i]
        IN  IF IsLoopType(node.Type)
            THEN generateLoopReport(CountMap(collectStorageReadsCustom(node)),
                                    LineLocation(node.Line))
            ELSE {<<>>}])

(***************************************************************************)
(* The solc tree (SolcASTNode) and its passes                              *)
(***************************************************************************)
\* the zero value of SolcASTNode; a *SolcASTNode or *ParamList field is <<>>
\* (nil) or a one-element sequence
SolcASTNode ==
    [NodeType |-> "", Name |-> <<>>, Src |-> <<>>, Nodes |-> <<>>, Body |-> <<>>,
     Statements |-> <<>>, Expression |-> <<>>, InitialValue |-> <<>>, TypeName |-> <<>>,
     Parameters |-> <<>>, ReturnParameters |-> <<>>, IndexExpression |-> <<>>,
     BaseExpression |-> <<>>, LeftExpression |-> <<>>, RightExpression |-> <<>>,
     Operator |-> <<>>, Value |-> <<>>]

ParamList(params) == [Parameters |-> params]

\* walkSolcAST: the nodes fn is called on, in the order of the calls
RECURSIVE walkSolcAST(_)
walkSolcAST(node) ==
    <<node>>
    \o Flatten([i \in DOMAIN node.Nodes |-> walkSolcAST(node.Nodes[i])])
    \o (IF node.Body # <<>> THEN walkSolcAST(node.Body[1]) ELSE <<>>)
    \o Flatten([i \in DOMAIN node.Statements |-> walkSolcAST(node.Statements[i])])

\* collectStorageReadsSolc: the keys counted, in the order they are met
RECURSIVE collectStorageReadsSolc(_)
collectStorageReadsSolc(node) ==
    (IF /\ node.NodeType = "VariableDeclarationStatement"
        /\ node.InitialValue # <<>>
        /\ node.InitialValue[1].NodeType = "IndexAccess"
        /\ node.InitialValue[1].BaseExpression # <<>>
        /\ node.InitialValue[1].IndexExpression # <<>>
     THEN <<node.InitialValue[1].BaseExpression[1].Name \o <<"[">>
            \o node.InitialValue[1].IndexExpression[1].Name \o <<"]">>>>
     ELSE <<>>)
    \o Flatten([i \in DOMAIN node.Statements |-> collectStorageReadsSolc(node.Statements[i])])
    \o (IF node.Body # <<>> THEN collectStorageReadsSolc(node.Body[1]) ELSE <<>>)

\* checkLoopsForStorageReads: the report lists it can append
checkLoopsForStorageReads(ast) ==
    LET walk == walkSolcAST(ast)
    IN  Concats([i \in DOMAIN walk |->
            IF IsLoopType(walk[i].NodeType)
            THEN generateLoopReport(
                     CountMap(IF walk[i].Body # <<>>
                              THEN collectStorageReadsSolc(walk[i].Body[1]) ELSE <<>>),
                     walk[i].Src)
            ELSE {<<>>}])

SmallUints == {<<"u", "i", "n", "t", "8">>, <<"u", "i", "n", "t", "1", "6">>,
               <<"u", "i", "n", "t", "3", "2">>}

TypeSavings == 200

TypeReport(typeName, name, location) ==
    [Issue |-> [fmt |-> "Inefficient type '%s' used for variable '%s'",
                s |-> typeName, s2 |-> name],
     Suggestion |-> [fmt |-> "Use 'uint256' to avoid packing overhead unless tightly packed in a struct"],
     GasSavings |-> TypeSavings,
     Location |-> location]

\* checkInefficientTypes: the reports it appends
checkInefficientTypes(ast) ==
    LET walk == walkSolcAST(ast)
    IN  Flatten([i \in DOMAIN walk |->
            IF /\ walk[i].NodeType = "VariableDeclaration"
               /\ walk[i].TypeName # <<>>
               /\ walk[i].TypeName[1].Name \in SmallUints
            THEN <<TypeReport(walk[i].TypeName[1].Name, walk[i].Name, walk[i].Src)>>
            ELSE <<>>])

\* collectExpressions: the keys counted, in the order they are met
RECURSIVE collectExpressions(_)
collectExpressions(node) ==
    (IF /\ node.NodeType = "BinaryOperation"
        /\ node.LeftExpression # <<>>
        /\ node.RightExpression # <<>>
     THEN LET l == node.LeftExpression[1]
              r == node.RightExpression[1]
              leftVal == IF l.Name # <<>> THEN l.Name ELSE l.Value
              rightVal == IF r.Value # <<>> THEN r.Value ELSE r.Name
          IN  IF leftVal # <<>> /\ rightVal # <<>>
              THEN <<leftVal \o <<" ">> \o node.Operator \o <<" ">> \o rightVal>>
              ELSE <<>>
     ELSE <<>>)
    \o (IF node.LeftExpression # <<>> THEN collectExpressions(node.LeftExpression[1]) ELSE <<>>)
    \o (IF node.RightExpression # <<>> THEN collectExpressions(node.RightExpression[1]) ELSE <<>>)
    \o (IF node.NodeType = "VariableDeclarationStatement" /\ node.InitialValue # <<>>
        THEN collectExpressions(node.InitialValue[1]) ELSE <<>>)
    \o (IF node.NodeType = "Return" /\ node.Expression # <<>>
        THEN collectExpressions(node.Expression[1]) ELSE <<>>)
    \o Flatten([i \in DOMAIN node.Statements |-> collectExpressions(node.Statements[i])])

ExprSavings(count) == count * 50

ExprReport(expr, count, location) ==
    [Issue |-> [fmt |-> "Expression '%s' computed %d times", s |-> expr, d |-> count],
     Suggestion |-> [fmt |-> "Cache the result in a local variable"],
     GasSavings |-> ExprSavings(count),
     Location |-> location]

\* checkRedundantOperations: the report lists it can append
checkRedundantOperations(ast) ==
    LET walk == walkSolcAST(ast)
    IN  Concats([i \in DOMAIN walk |->
            IF walk[i].NodeType = "FunctionDefinition" /\ walk[i].Body # <<>>
            THEN LET exprMap == CountMap(collectExpressions(walk[i].Body[1]))
                 IN  {[j \in DOMAIN order |->
                          ExprReport(order[j], exprMap[order[j]], walk[i].Src)] :
                      order \in Orders({k \in DOMAIN exprMap : exprMap[k] > 1})}
            ELSE {<<>>}])

\* analyzeSolcAST, on the tree the document decodes to
analyzeSolcAST(root) ==
    Concats(<<checkLoopsForStorageReads(root), {checkInefficientTypes(root)},
              checkRedundantOperations(root)>>)

(***************************************************************************)
(* Construction and analysis (NewGasOptimizer, Analyze)                    *)
(***************************************************************************)
\* what exec.Command("solc", ...).CombinedOutput() and the reading of its
\* output can give: err # nil (the process cannot be started, or it exits with
\* a failure), an output the regexp finds no JSON in, JSON that does not
\* decode, or a tree
SolcOutcomes == {"run_error", "no_json", "bad_json", "ok"}

NewGasOptimizer ==
    /\ phase = "start"
    /\ IF solcOutcome = "run_error"
       THEN /\ Tokens' = tokenize(Source)
            /\ Pos' = 0
            /\ phase' = "parsing"
            /\ parses' = parses + 1
            /\ UNCHANGED <<AST, Reports, err>>
       ELSE IF solcOutcome = "no_json"
       THEN /\ err' = "no JSON found in solc output"
            /\ phase' = "fatal"
            /\ UNCHANGED <<Tokens, Pos, parses, AST, Reports>>
       ELSE IF solcOutcome = "bad_json"
       THEN /\ err' = "failed to parse AST"
            /\ phase' = "fatal"
            /\ UNCHANGED <<Tokens, Pos, parses, AST, Reports>>
       ELSE /\ AST' = [type |-> "json", val |-> <<solcDoc>>]
            /\ Reports' = <<>>
            /\ phase' = "constructed"
            /\ UNCHANGED <<Tokens, Pos, parses, err>>
    /\ UNCHANGED <<Source, solcOutcome, solcDoc, Current, stack, lastIter, built, steps,
                   runs, prevReports>>

\* Analyze: the type switch on the tree held, and the passes
Analyze ==
    /\ phase = "constructed"
    /\ \E rs \in (IF AST.type = "*Node" THEN analyzeCustomAST(AST.val[1])
                  ELSE analyzeSolcAST(AST.val[1])) :
           Reports' = Reports \o rs
    /\ phase' = "analyzed"
    /\ UNCHANGED <<Source, solcOutcome, solcDoc, Tokens, Pos, Current, stack, AST, err,
                   lastIter, built, parses, steps, runs, prevReports>>

(***************************************************************************)
(* Inputs: source texts made of at most MaxFrags lines, each one of Frags  *)
(***************************************************************************)
MaxFrags == 4

Frags ==
    << <<kw_function, <<"f">>, <<"(">>, <<")">>, <<"{">>>>,
       <<kw_for, <<"(">>, <<"i">>, <<")">>, <<"{">>>>,
       <<kw_while, <<"(">>, <<"f">>, <<"(">>, <<"x">>, <<")">>, <<")">>, <<"{">>>>,
       <<kw_if, <<"(">>>>,
       <<<<"a">>, <<".">>, <<"b">>, <<";">>, <<"a">>, <<".">>, <<"b">>, <<";">>, <<"}">>>>,
       <<<<"}">>>>,
       <<<<"c">>>>,
       <<kw_function>> >>

FragSeqs == UNION {[1..n -> 1..Len(Frags)] : n \in 0..MaxFrags}

SourceOf(fs) == Join([i \in DOMAIN fs |-> Join(Frags[fs[i]], <<" ">>)], <<"\n">>)

Sources == {SourceOf(fs) : fs \in FragSeqs}

(***************************************************************************)
(* Inputs: solc trees of one contract with a state variable and a function *)
(* whose body holds at most MaxStmts statements, directly or in a loop     *)
(***************************************************************************)
MaxStmts == 4

MaxRuns == 2

SrcSpan(start, length) == Itoa(start) \o <<":">> \o Itoa(length) \o <<":", "0">>

Identifier(name) == [SolcASTNode EXCEPT !.NodeType = "Identifier", !.Name = name]

Literal(value) == [SolcASTNode EXCEPT !.NodeType = "Literal", !.Value = value]

IndexAccess(base, index) ==
    [SolcASTNode EXCEPT !.NodeType = "IndexAccess", !.BaseExpression = <<base>>,
                        !.IndexExpression = <<index>>]

BinaryOperation(left, op, right) ==
    [SolcASTNode EXCEPT !.NodeType = "BinaryOperation", !.Operator = op,
                        !.LeftExpression = <<left>>, !.RightExpression = <<right>>]

VariableDeclarationStatement(init) ==
    [SolcASTNode EXCEPT !.NodeType = "VariableDeclarationStatement", !.InitialValue = <<init>>]

Return(expr) == [SolcASTNode EXCEPT !.NodeType = "Return", !.Expression = <<expr>>]

Block(stmts) == [SolcASTNode EXCEPT !.NodeType = "Block", !.Statements = stmts]

LoopStatement(type, stmts) ==
    [SolcASTNode EXCEPT !.NodeType = type, !.Src = SrcSpan(183, 125), !.Body = <<Block(stmts)>>]

ElementaryTypeName(name) == [SolcASTNode EXCEPT !.NodeType = "ElementaryTypeName", !.Name = name]

\* a declaration of the type named, or of none when type is <<>>
VariableDeclaration(name, type, src) ==
    [SolcASTNode EXCEPT !.NodeType = "VariableDeclaration", !.Name = name, !.Src = src,
                        !.TypeName = IF type = <<>> THEN <<>> ELSE <<ElementaryTypeName(type)>>]

FunctionDefinition(params, stmts) ==
    [SolcASTNode EXCEPT !.NodeType = "FunctionDefinition", !.Name = <<"f">>,
                        !.Src = SrcSpan(320, 140),
                        !.Parameters = <<ParamList(params)>>,
                        !.Body = <<Block(stmts)>>]

SourceUnit(members) ==
    [SolcASTNode EXCEPT !.NodeType = "SourceUnit", !.Nodes =
        <<[SolcASTNode EXCEPT !.NodeType = "ContractDefinition", !.Name = <<"C">>,
                              !.Nodes = members]>>]

data == Identifier(<<"d", "a", "t", "a">>)

uint8 == <<"u", "i", "n", "t", "8">>

uint256 == <<"u", "i", "n", "t", "2", "5", "6">>

\* uint x = data[i]; = data[j]; = data[0]; = data[1]; = a * 2; = 2 * a;
\* return b + a * 2;
Stmts ==
    {VariableDeclarationStatement(IndexAccess(data, Identifier(<<"i">>))),
     VariableDeclarationStatement(IndexAccess(data, Identifier(<<"j">>))),
     VariableDeclarationStatement(IndexAccess(data, Literal(<<"0">>))),
     VariableDeclarationStatement(IndexAccess(data, Literal(<<"1">>))),
     VariableDeclarationStatement(
         BinaryOperation(Identifier(<<"a">>), <<"*">>, Literal(<<"2">>))),
     VariableDeclarationStatement(
         BinaryOperation(Literal(<<"2">>), <<"*">>, Identifier(<<"a">>))),
     Return(BinaryOperation(Identifier(<<"b">>), <<"+">>,
                BinaryOperation(Identifier(<<"a">>), <<"*">>, Literal(<<"2">>))))}

Bodies == UNION {[1..n -> Stmts] : n \in 0..MaxStmts}

Wrappers == {"none", "ForStatement", "WhileStatement"}

Wrapped(w, stmts) == IF w = "none" THEN stmts ELSE <<LoopStatement(w, stmts)>>

ParamLists == {<<>>, <<VariableDeclaration(<<"n">>, uint8, SrcSpan(40, 7))>>}

SolcDoc(type, params, w, stmts) ==
    SourceUnit(<<VariableDeclaration(<<"s", "m", "a", "l", "l", "N", "u", "m">>, type,
                                     SrcSpan(87, 21)),
                 FunctionDefinition(params, Wrapped(w, stmts))>>)

SolcDocs ==
    {SolcDoc(type, params, w, stmts) :
        type \in {uint8, uint256, <<>>}, params \in ParamLists, w \in Wrappers,
        stmts \in Bodies}

\* the tree of a contract with uint8 smallNum and a loop reading data[i] twice
ExampleDoc ==
    SolcDoc(uint8, <<>>, "ForStatement",
            <<VariableDeclarationStatement(IndexAccess(data, Identifier(<<"i">>))),
              VariableDeclarationStatement(IndexAccess(data, Identifier(<<"i">>)))>>)

InitRest ==
    /\ phase = "start"
    /\ Tokens = <<>>
    /\ Pos = 0
    /\ Current = ZeroToken
    /\ stack = <<>>
    /\ AST = [type |-> "nil", val |-> <<>>]
    /\ Reports = <<>>
    /\ err = ""
    /\ lastIter = <<>>
    /\ built = <<>>
    /\ parses = 0
    /\ steps = 0
    /\ runs = 1
    /\ prevReports = <<>>

Init ==
    /\ Source \in Sources
    /\ solcOutcome \in SolcOutcomes
    /\ solcDoc = ExampleDoc
    /\ InitRest

Next ==
    \/ NewGasOptimizer
    \/ Parse_entry
    \/ Parse_loop
    \/ Parse_return
    \/ parseLoop_header
    \/ parseLoop_block
    \/ parseIfStatement_header
    \/ parseIfStatement_block
    \/ parseFunction_params
    \/ parseFunction_block
    \/ Analyze

Spec == Init /\ [][Next]_vars

\* main is run again on the same file, with the same solc
Rerun ==
    /\ phase = "analyzed"
    /\ runs < MaxRuns
    /\ runs' = runs + 1
    /\ prevReports' = Reports
    /\ phase' = "start"
    /\ AST' = [type |-> "nil", val |-> <<>>]
    /\ Reports' = <<>>
    /\ UNCHANGED <<Source, solcOutcome, solcDoc, Tokens, Pos, Current, stack, err,
                   lastIter, built, parses, steps>>

\* solc succeeds and prints any of SolcDocs
InitSolc ==
    /\ Source = <<>>
    /\ solcOutcome = "ok"
    /\ solcDoc \in SolcDocs
    /\ InitRest

NextSolc ==
    \/ NewGasOptimizer
    \/ Analyze
    \/ Rerun

SolcSpec == InitSolc /\ [][NextSolc]_vars

(***************************************************************************)
(* Inputs of the lexer: every text of at most MaxChars characters          *)
(***************************************************************************)
MaxChars == 4

LexChars == {"i", "1", "+", "=", " ", "\n"}

LexTexts == UNION {[1..n -> LexChars] : n \in 0..MaxChars}

\* solc is not there, and NewParser tokenizes the text
InitLex ==
    /\ Source \in LexTexts
    /\ solcOutcome = "run_error"
    /\ solcDoc = ExampleDoc
    /\ InitRest

NextLex == NewGasOptimizer

LexSpec == InitLex /\ [][NextLex]_vars

(***************************************************************************)
(* Claims about the fallback path                                          *)
(***************************************************************************)
CountOf(v) == Cardinality({i \in DOMAIN Tokens : Tokens[i].Value = v})

IterAdvances == \A i \in DOMAIN lastIter : lastIter[i].to > lastIter[i].from

\* the parser can take a step, and has taken no more than three per token:
\* no run of it is stuck and none is infinite
Terminating == phase = "parsing" => (ENABLED Next /\ steps <= 3 * Len(Tokens) + 2)

\* C1: on every token sequence, the empty one and unbalanced ones included,
\* Parse terminates, and every iteration of the top-level loop, of a
\* header-skipping loop and of a block-building loop leaves Pos strictly
\* greater than it found it.
C1_ParseTerminatesAndAdvances == IterAdvances /\ Terminating

\* a parse of an unbalanced text has ended at the end of the tokens, after
\* iterations of the block loop of a loop statement inside a function body
C1_Witness ==
    /\ phase = "constructed"
    /\ AST.type = "*Node"
    /\ Pos = Len(Tokens)
    /\ CountOf(<<"{">>) > CountOf(<<"}">>)
    /\ \E i \in DOMAIN built : built[i].kind = "parseLoop" /\ built[i].open > 0
    /\ \E i \in DOMAIN built : built[i].kind = "parseFunction" /\ built[i].open > 0
    /\ lastIter # <<>>

\* C5: with a readable source file, whatever way solc fails (it does not
\* run, or its output holds no tree that can be found and decoded),
\* NewGasOptimizer returns no error and the optimizer holds the tree of one
\* fallback parse of the same source text.
C5_EveryToolFailureFallsBack ==
    (solcOutcome # "ok" /\ phase \in {"constructed", "analyzed", "fatal"}) =>
        /\ phase # "fatal"
        /\ err = ""
        /\ AST.type = "*Node"
        /\ Tokens = tokenize(Source)
        /\ parses = 1

\* the occurrences of `++` in a text, read from the left
RECURSIVE PlusPlusCount(_)
PlusPlusCount(text) ==
    IF Len(text) < 2 THEN 0
    ELSE IF text[1] = "+" /\ text[2] = "+" THEN 1 + PlusPlusCount(SubSeq(text, 3, Len(text)))
    ELSE PlusPlusCount(Tail(text))

\* C6: every occurrence of the two-character operator `++` in the text is one
\* Operator token whose text is `++`, so there are as many such tokens as
\* occurrences.
C6_TwoCharacterOperatorIsOneToken ==
    phase = "parsing" =>
        Cardinality({i \in DOMAIN Tokens :
                        Tokens[i].Type = TokenOperator /\ Tokens[i].Value = <<"+", "+">>})
            = PlusPlusCount(Source)

\* the nodes of a fallback tree, in pre-order
RECURSIVE NodesOf(_)
NodesOf(node) ==
    <<node>> \o Flatten([i \in DOMAIN node.Children |-> NodesOf(node.Children[i])])

\* C8: after Analyze on the fallback tree, every ForStatement or WhileStatement
\* node at any depth, a loop inside a function body's block included, has a
\* report with savings (count-1)*797 at the loop's line for each key
\* "<base>.<member>" that occurs more than once in its body.
C8_LoopsAtAnyDepthAreExamined ==
    (phase = "analyzed" /\ AST.type = "*Node") =>
        \A n \in Range(NodesOf(AST.val[1])) :
            IsLoopType(n.Type) =>
                LET counts == CountMap(collectStorageReadsCustom(n))
                IN  \A k \in DOMAIN counts :
                        counts[k] > 1 =>
                            \E i \in DOMAIN Reports :
                                /\ Reports[i].Issue.s = k
                                /\ Reports[i].GasSavings = (counts[k] - 1) * 797
                                /\ Reports[i].Location = LineLocation(n.Line)

\* the index of the token that closes the bracket opened at token i, counting
\* the nesting depth; 0 when there is none
RECURSIVE MatchFrom(_, _, _, _)
MatchFrom(j, depth, open, close) ==
    IF j > Len(Tokens) THEN 0
    ELSE IF Tokens[j].Value = close
    THEN IF depth = 1 THEN j ELSE MatchFrom(j + 1, depth - 1, open, close)
    ELSE IF Tokens[j].Value = open THEN MatchFrom(j + 1, depth + 1, open, close)
    ELSE MatchFrom(j + 1, depth, open, close)

MatchOf(i, open, close) == MatchFrom(i + 1, 1, open, close)

\* C9: for every loop or conditional the parser has returned, when the `)` that
\* matches its `(` (nesting counted) is followed by `{`, that `{` is the one
\* its Block child was opened at.
C9_HeaderSkipCountsNesting ==
    \A i \in DOMAIN built :
        built[i].kind \in {"parseLoop", "parseIfStatement"} =>
            LET m == MatchOf(built[i].paren, <<"(">>, <<")">>)
            IN  (m > 0 /\ m < Len(Tokens) /\ Tokens[m + 1].Value = <<"{">>) =>
                    /\ built[i].open = m + 1
                    /\ built[i].node.Children # <<>>
                    /\ built[i].node.Children[1].Type = "Block"

\* the Identifier tokens with indices in lo..hi that do not follow a `.`
RECURSIVE AccessedNames(_, _)
AccessedNames(lo, hi) ==
    IF lo > hi THEN <<>>
    ELSE (IF Tokens[lo].Type = TokenIdentifier /\ Tokens[lo - 1].Value # <<".">>
          THEN <<Tokens[lo].Value>> ELSE <<>>)
         \o AccessedNames(lo + 1, hi)

\* the values of the access nodes among a block's children
AccessValues(block) ==
    Flatten([i \in DOMAIN block.Children |->
        IF block.Children[i].Type = "MemberAccess"
        THEN <<block.Children[i].Value>> ELSE <<>>])

Flat(lo, hi) ==
    \A j \in lo..hi : Tokens[j].Type \notin {TokenKeyword, TokenPunctuation}

\* C10: for every block the parser has returned whose `{` has a matching `}`:
\* the builder returned on the token after that `}` (on the `}` itself when it
\* is the last token), and, when no statement is nested in the block, its
\* access nodes are the Identifier tokens between the braces that do not follow
\* a `.`, in source order.
C10_BlockStaysWithinItsBraces ==
    \A i \in DOMAIN built :
        built[i].open > 0 =>
            LET open == built[i].open
                m == MatchOf(open, <<"{">>, <<"}">>)
                block == built[i].node.Children[Len(built[i].node.Children)]
            IN  m > 0 =>
                    /\ built[i].end = IF m < Len(Tokens) THEN m + 1 ELSE m
                    /\ Flat(open + 1, m - 1) =>
                           AccessValues(block) = AccessedNames(open + 1, m - 1)

(***************************************************************************)
(* Claims about the solc tree                                              *)
(***************************************************************************)
\* the nodes a node of the typed tree links to, through every field
LinkedNodes(node) ==
    node.Nodes \o node.Body \o node.Statements \o node.Expression \o node.InitialValue
    \o node.TypeName
    \o (IF node.Parameters # <<>> THEN node.Parameters[1].Parameters ELSE <<>>)
    \o (IF node.ReturnParameters # <<>> THEN node.ReturnParameters[1].Parameters ELSE <<>>)
    \o node.IndexExpression \o node.BaseExpression
    \o node.LeftExpression \o node.RightExpression

\* every node of the typed tree, at any position
RECURSIVE EveryNode(_)
EveryNode(node) ==
    <<node>> \o Flatten([i \in DOMAIN LinkedNodes(node) |-> EveryNode(LinkedNodes(node)[i])])

OnSolcTree == phase = "analyzed" /\ AST.type = "json"

ReportsAt(fmt, location) ==
    {i \in DOMAIN Reports : Reports[i].Issue.fmt = fmt /\ Reports[i].Location = location}

\* the text of a bare name or of a literal
TextOf(e) == IF e.NodeType = "Literal" THEN e.Value ELSE e.Name

\* the keys "<base>[<index>]" of the declaration statements below a loop body
\* whose initializer is an index access
RECURSIVE IndexReadKeys(_)
IndexReadKeys(node) ==
    (IF /\ node.NodeType = "VariableDeclarationStatement"
        /\ node.InitialValue # <<>>
        /\ node.InitialValue[1].NodeType = "IndexAccess"
     THEN <<TextOf(node.InitialValue[1].BaseExpression[1]) \o <<"[">>
            \o TextOf(node.InitialValue[1].IndexExpression[1]) \o <<"]">>>>
     ELSE <<>>)
    \o Flatten([i \in DOMAIN node.Statements |-> IndexReadKeys(node.Statements[i])])
    \o (IF node.Body # <<>> THEN IndexReadKeys(node.Body[1]) ELSE <<>>)

\* C2: after Analyze on a solc tree, for every loop node: each key
\* "<base>[<index>]" that occurs count > 1 times in its body has a report at the
\* loop's source span with savings (count-1)*(800-3), and the loop has exactly
\* one report per such key: a base/index pair that occurs once yields none.
C2_OneReportPerRepeatedIndexRead ==
    OnSolcTree =>
        \A n \in Range(EveryNode(AST.val[1])) :
            (IsLoopType(n.NodeType) /\ n.Body # <<>>) =>
                LET counts == CountMap(IndexReadKeys(n.Body[1]))
                    repeated == {k \in DOMAIN counts : counts[k] > 1}
                    at == ReportsAt("Variable '%s' read %d times in loop", n.Src)
                IN  /\ Cardinality(at) = Cardinality(repeated)
                    /\ \A k \in repeated :
                           \E i \in at : Reports[i].GasSavings = (counts[k] - 1) * (800 - 3)

\* C3: after Analyze on a solc tree, every VariableDeclaration node, at any
\* position of the tree, has exactly one report with savings 200 at its source
\* span when its declared type is uint8, uint16 or uint32, and none otherwise.
C3_EverySmallUintDeclarationReported ==
    OnSolcTree =>
        \A n \in Range(EveryNode(AST.val[1])) :
            n.NodeType = "VariableDeclaration" =>
                LET hits == ReportsAt("Inefficient type '%s' used for variable '%s'", n.Src)
                IN  IF n.TypeName # <<>> /\ n.TypeName[1].Name \in SmallUints
                    THEN /\ Cardinality(hits) = 1
                         /\ \A i \in hits : Reports[i].GasSavings = 200
                    ELSE hits = {}

IsBare(e) == e.NodeType \in {"Identifier", "Literal"}

\* the keys "<left> <operator> <right>" of the binary operations of a sequence
\* of nodes whose operands are both a bare name or a literal
BareOperationKeys(nodes) ==
    Flatten([i \in DOMAIN nodes |->
        IF /\ nodes[i].NodeType = "BinaryOperation"
           /\ nodes[i].LeftExpression # <<>> /\ nodes[i].RightExpression # <<>>
           /\ IsBare(nodes[i].LeftExpression[1]) /\ IsBare(nodes[i].RightExpression[1])
        THEN <<TextOf(nodes[i].LeftExpression[1]) \o <<" ">> \o nodes[i].Operator
               \o <<" ">> \o TextOf(nodes[i].RightExpression[1])>>
        ELSE <<>>])

\* C4: after Analyze on a solc tree, for every function with a body and every
\* key of a binary operation of the body with bare operands: a key that occurs
\* count > 1 times has exactly one report at the function's source span, with
\* savings count*50; a key that occurs once (`a * 2` beside `2 * a`) has none.
C4_OneReportPerRepeatedOperation ==
    OnSolcTree =>
        \A n \in Range(EveryNode(AST.val[1])) :
            (n.NodeType = "FunctionDefinition" /\ n.Body # <<>>) =>
                LET counts == CountMap(BareOperationKeys(EveryNode(n.Body[1])))
                    at == ReportsAt("Expression '%s' computed %d times", n.Src)
                IN  /\ \A k \in DOMAIN counts :
                           LET hits == {i \in at : Reports[i].Issue.s = k}
                           IN  IF counts[k] > 1
                               THEN /\ Cardinality(hits) = 1
                                    /\ \A i \in hits : Reports[i].GasSavings = counts[k] * 50
                               ELSE hits = {}
                    /\ \A i \in at : Reports[i].Issue.s \in DOMAIN counts

\* C7: a second run of Analyze on the same tree gives the report list of the
\* first, in the same order.
C7_SameTreeSameReportOrder ==
    (OnSolcTree /\ runs > 1) => Reports = prevReports

====
